---- MODULE Spec2Model ----
(***************************************************************************)
(* Model of ptgnn/baseneuralmodel/distributedtrainer.py:                   *)
(* DistributedModelTrainer.distributed_train spawns WorldSize worker       *)
(* processes; each runs _parallel_training_process, i.e. joins the process *)
(* group, optionally validates on start, then loops over epochs            *)
(* (_run_training, _run_validation, early-stopping decision) and finally   *)
(* destroys the process group.                                             *)
(*                                                                         *)
(* Numbers (losses, metrics) are extended rationals <<n, d>>:              *)
(*   d > 0 a finite value n/d in lowest terms, <<1,0>> = +inf,             *)
(*   <<-1,0>> = -inf, <<0,0>> = NaN.  Unset marks an unbound local.        *)
(***************************************************************************)
EXTENDS Integers, Sequences, FiniteSets, TLC

\* ------------------------------------------------------------------ bounds
MaxNumEpochs == 4      \* self._max_num_epochs of the trainer ranges up to this
MaxPatience == 1       \* patience argument ranges over 0..MaxPatience
MaxMinibatches == 2    \* longest training shard, in minibatches
MaxFaults == 1         \* communication faults injected per run
MaxMetric == 2         \* target metrics range over the halves in -MaxMetric..MaxMetric

\* world_size = 2 in distributed_train
WorldSize == 2
Ranks == 0 .. (WorldSize - 1)

\* ------------------------------------------------------------- arithmetic
PosInf == <<1, 0>>
NegInf == <<-1, 0>>
NaN == <<0, 0>>
Unset == <<0, -1>>

Abs(i) == IF i < 0 THEN -i ELSE i

RECURSIVE Gcd(_, _)
Gcd(a, b) == IF b = 0 THEN a ELSE Gcd(b, a % b)

Sign(i) == IF i > 0 THEN 1 ELSE IF i < 0 THEN -1 ELSE 0

\* lowest terms; a zero denominator keeps only the sign (inf, -inf, NaN)
Norm(n, d) ==
    IF d = 0 THEN <<Sign(n), 0>>
    ELSE LET g == Gcd(Abs(n), d) IN <<n \div g, d \div g>>

Num(i) == <<i, 1>>
IsNaN(x) == x = NaN
IsFinite(x) == x[2] > 0

\* float addition: inf + (-inf) = NaN, NaN absorbs
Add(x, y) ==
    IF IsNaN(x) \/ IsNaN(y) THEN NaN
    ELSE IF x[2] = 0 /\ y[2] = 0 THEN (IF x = y THEN x ELSE NaN)
    ELSE IF x[2] = 0 THEN x
    ELSE IF y[2] = 0 THEN y
    ELSE Norm(x[1] * y[2] + y[1] * x[2], x[2] * y[2])

\* float division by a positive integer count
DivInt(x, k) == IF x[2] = 0 THEN x ELSE Norm(x[1], x[2] * k)

\* float comparison x < y: false whenever a NaN is involved
Less(x, y) ==
    /\ ~IsNaN(x)
    /\ ~IsNaN(y)
    /\ IF x[2] = 0 /\ y[2] = 0 THEN x[1] < y[1]
       ELSE x[1] * y[2] < y[1] * x[2]

RECURSIVE SumSeq(_)
SumSeq(s) == IF s = <<>> THEN Num(0) ELSE Add(s[1], SumSeq(Tail(s)))


RECURSIVE SeqsUpTo(_, _)
SeqsUpTo(S, n) ==
    IF n = 0 THEN {<<>>}
    ELSE LET shorter == SeqsUpTo(S, n - 1)
         IN shorter \cup {Append(s, x) : s \in {t \in shorter : Len(t) = n - 1}, x \in S}

\* ------------------------------------------------------------------ inputs
\* losses the forward call of a training minibatch can return
TrainLossValues == {Num(1), NaN, PosInf, NegInf}
\* one training shard: the losses of its full minibatches, in order
TrainShards == SeqsUpTo(TrainLossValues, MaxMinibatches)
\* one validation shard: the losses of its minibatches, in order
ValShards == {<<>>, <<Num(1), Num(2), Num(3)>>, <<Num(4), Num(5), Num(6)>>}
\* values report_metrics() can give for the named target metric
MetricValues == {Num(1), Num(2)}
\* trainer fields read by _run_training
TrainConfigs == [enable_amp : BOOLEAN, clip_gradient_norm : BOOLEAN, scheduler : BOOLEAN]

\* ------------------------------------------------------------------- state
VARIABLES
    cfg,          \* trainer fields and distributed_train arguments of this run
    orch,         \* position of distributed_train in the parent process
    pc,           \* position of each worker in _parallel_training_process
    status,       \* "idle", "running", "raised", "terminated" or "exited"
    inGroup,      \* worker is a member of the process group
    epoch,        \* completed iterations of the epoch loop
    best,         \* best_target_metric
    notImproved,  \* num_epochs_not_improved
    vl,           \* locals of the running _run_validation call
    arIn,         \* tensors handed to the pending all_reduce, per rank
    arOut,        \* reduced tensors delivered and not yet picked up, per rank
    ckpt,         \* the checkpoint store: last checkpoint written
    faults,       \* communication faults injected so far
    lastImp,      \* history: epoch number (1-based) of the last improving pass
    erred,        \* history: an error was raised inside a pass of this worker
    err,          \* the exception that ended the worker, "" if none
    tp,           \* one _run_training call followed minibatch by minibatch
    meta,         \* metadata initialization: the argument and what was done
    pol,          \* one target-metric decision of _run_validation on its own
    seen          \* history: the best target metric the worker has observed

vars == <<cfg, orch, pc, status, inGroup, epoch, best, notImproved, vl,
          arIn, arOut, ckpt, faults, lastImp, erred, err, tp, meta, pol,
          seen>>

NoValLocals == [live |-> FALSE, local_mean |-> Unset, validation_loss |-> Unset,
                elapsed_time |-> FALSE, raised |-> FALSE]
NoCkpt == [saved |-> FALSE, by |-> 0, epoch |-> 0, metric |-> Unset,
           improved |-> FALSE, in_loop |-> FALSE, pass_raised |-> FALSE]
\* locals of _run_training at entry, with the history of what the pass did
TrainLocals == [num_minibatches |-> 0, sum_epoch_loss |-> Num(0),
                optSteps |-> 0, nonFiniteSteps |-> 0, hooks |-> 0, events |-> <<>>]
NoPass == [at |-> "none", shard |-> <<>>, failAt |-> 0,
           tc |-> [enable_amp |-> FALSE, clip_gradient_norm |-> FALSE, scheduler |-> FALSE],
           i |-> 0, last |-> Unset, t |-> TrainLocals, error |-> ""]

Configs ==
    [target_metric_named : BOOLEAN,
     target_metric_higher_is_better : BOOLEAN,
     validate_on_start : BOOLEAN,
     patience : 0 .. MaxPatience,
     max_num_epochs : {MaxNumEpochs}]

\* metadata not initialized yet; launched counts the workers that were
\* already running when it was
NoMetadata(initialize_metadata) ==
    [initialize_metadata |-> initialize_metadata, runs |-> 0, view |-> <<>>,
     launched |-> 0, failed |-> FALSE]

\* no target-metric decision followed on its own
NoDecision == [at |-> "none", named |-> FALSE, higher_is_better |-> FALSE,
               metric |-> Unset, validation_loss |-> Unset,
               best_target_metric |-> Unset, target_metric |-> Unset,
               target_metric_improved |-> FALSE]

\* distributed_train entered, nothing done yet
Constructed ==
    /\ orch = "entry"
    /\ pc = [r \in Ranks |-> "init"]
    /\ status = [r \in Ranks |-> "idle"]
    /\ inGroup = [r \in Ranks |-> FALSE]
    /\ epoch = [r \in Ranks |-> 0]
    /\ best = [r \in Ranks |-> Unset]
    /\ notImproved = [r \in Ranks |-> 0]
    /\ vl = [r \in Ranks |-> NoValLocals]
    /\ arIn = [r \in Ranks |-> Unset]
    /\ arOut = [r \in Ranks |-> Unset]
    /\ ckpt = NoCkpt
    /\ faults = 0
    /\ lastImp = [r \in Ranks |-> 0]
    /\ erred = [r \in Ranks |-> FALSE]
    /\ err = [r \in Ranks |-> ""]
    /\ seen = [r \in Ranks |-> Unset]

\* initialize_metadata keeps its default, True
Init ==
    /\ cfg \in Configs
    /\ Constructed
    /\ tp = NoPass
    /\ meta = NoMetadata(TRUE)
    /\ pol = NoDecision


\* ------------------------------------------------- _run_training (pure part)
\* scaler.step(optimizer): GradScaler applies optimizer.step() unless it is
\* enabled and the unscaled gradients are non-finite, which is what the
\* gradients of a non-finite loss are.
ScalerApplies(loss, enable_amp) == ~(enable_amp /\ ~IsFinite(loss))

\* the guard on the minibatch loss: torch.isnan(mb_loss)
LossRejected(loss) == IsNaN(loss)

\* variant: the gradients are clipped after the optimizer step
StepEvents_ClipAfterStep(loss, tc) ==
    <<"backward", "scaler_step">>
    \o (IF ScalerApplies(loss, tc.enable_amp) THEN <<"optimizer_step">> ELSE <<>>)
    \o (IF tc.clip_gradient_norm THEN <<"unscale", "clip">> ELSE <<>>)
    \o <<"scaler_update">>
    \o (IF tc.scheduler THEN <<"scheduler_step">> ELSE <<>>)

\* what one minibatch does after its loss passed the guard, in order
StepEvents(loss, tc) ==
    <<"backward">>
    \o (IF tc.clip_gradient_norm THEN <<"unscale", "clip">> ELSE <<>>)
    \o <<"scaler_step">>
    \o (IF ScalerApplies(loss, tc.enable_amp) THEN <<"optimizer_step">> ELSE <<>>)
    \o <<"scaler_update">>
    \o (IF tc.scheduler THEN <<"scheduler_step">> ELSE <<>>)

Tag(ops, i) == [k \in 1 .. Len(ops) |-> <<ops[k], i>>]

\* one iteration of the minibatch loop for minibatch i (step_idx = i - 1);
\* t are the locals before it, fails says that the forward call raises
TrainStep(t, i, loss, fails, tc) ==
    IF fails
    THEN [error |-> "Exception",
          t |-> [t EXCEPT !.events = @ \o Tag(<<"zero_grad", "forward_raises">>, i)]]
    ELSE IF LossRejected(loss)
    THEN [error |-> "Exception",
          t |-> [t EXCEPT !.events = @ \o Tag(<<"zero_grad", "forward">>, i)]]
    ELSE LET applied == ScalerApplies(loss, tc.enable_amp)
         IN [error |-> "",
             t |-> [t EXCEPT !.num_minibatches = @ + 1,
                             !.sum_epoch_loss = Add(@, loss),
                             !.optSteps = @ + (IF applied THEN 1 ELSE 0),
                             !.nonFiniteSteps =
                                 @ + (IF applied /\ ~IsFinite(loss) THEN 1 ELSE 0),
                             !.events = @ \o Tag(<<"zero_grad", "forward">>
                                                 \o StepEvents(loss, tc), i)]]

\* variant: the assertion lets an empty pass through
HasMinibatches_AllowsNone(n) == n >= 0

\* assert num_minibatches > 0
HasMinibatches(n) == n > 0

\* after the loop: the assertion, report_metrics, the end-of-epoch hooks
TrainingPost(t) ==
    IF HasMinibatches(t.num_minibatches)
    THEN [error |-> "", t |-> [t EXCEPT !.hooks = @ + 1]]
    ELSE [error |-> "AssertionError", t |-> t]

\* the minibatch loop inside try/except (every exception is logged and raised
\* again), then the rest of the function.  failAt > 0 is the minibatch whose
\* forward call raises.
RECURSIVE TrainingLoop(_, _, _, _, _)
TrainingLoop(t, shard, i, failAt, tc) ==
    IF i > Len(shard) THEN TrainingPost(t)
    ELSE LET step == TrainStep(t, i, shard[i], i = failAt, tc)
         IN IF step.error # "" THEN step
            ELSE TrainingLoop(step.t, shard, i + 1, failAt, tc)

\* _run_training as a whole: the exception it raises ("" if it returns)
RunTraining(shard, failAt, tc) == TrainingLoop(TrainLocals, shard, 1, failAt, tc)

\* ------------------------------- _run_training followed step by step (tp)
TrainPasses ==
    {[at |-> "loop", shard |-> sh, failAt |-> f, tc |-> c, i |-> 1, last |-> Unset,
      t |-> TrainLocals, error |-> ""] :
        sh \in TrainShards, f \in 0 .. MaxMinibatches, c \in TrainConfigs}

\* the loop body for the next minibatch of the shard
TrainMinibatch ==
    /\ tp.at = "loop"
    /\ tp.i <= Len(tp.shard)
    /\ LET step == TrainStep(tp.t, tp.i, tp.shard[tp.i], tp.i = tp.failAt, tp.tc)
       IN tp' = [tp EXCEPT !.t = step.t,
                           !.last = IF tp.i = tp.failAt THEN Unset ELSE tp.shard[tp.i],
                           !.error = step.error,
                           !.i = @ + 1,
                           !.at = IF step.error # "" THEN "raised" ELSE "loop"]
    /\ UNCHANGED <<cfg, seen, meta, pol, orch, pc, status, inGroup, epoch, best, notImproved, vl, arIn,
                   arOut, ckpt, faults, lastImp, erred, err>>

\* the shard is exhausted: the assertion, the metrics and the hooks
TrainReturn ==
    /\ tp.at = "loop"
    /\ tp.i > Len(tp.shard)
    /\ LET post == TrainingPost(tp.t)
       IN tp' = [tp EXCEPT !.t = post.t,
                           !.error = post.error,
                           !.at = IF post.error # "" THEN "raised" ELSE "returned"]
    /\ UNCHANGED <<cfg, seen, meta, pol, orch, pc, status, inGroup, epoch, best, notImproved, vl, arIn,
                   arOut, ckpt, faults, lastImp, erred, err>>

NextTrain == TrainMinibatch \/ TrainReturn

InitTrain ==
    /\ cfg = [target_metric_named |-> FALSE, target_metric_higher_is_better |-> FALSE,
              validate_on_start |-> TRUE, patience |-> 0, max_num_epochs |-> MaxNumEpochs]
    /\ Constructed
    /\ tp \in TrainPasses
    /\ meta = NoMetadata(TRUE)
    /\ pol = NoDecision

SpecTrain == InitTrain /\ [][NextTrain]_vars

\* the step-by-step pass ends as RunTraining says
TrainPassAgrees ==
    tp.at \in {"returned", "raised"} =>
        /\ RunTraining(tp.shard, tp.failAt, tp.tc).error = tp.error
        /\ RunTraining(tp.shard, tp.failAt, tp.tc).t = tp.t

\* ----------------------------------------------- _run_validation (pure part)
\* validation_loss = sum_epoch_loss / num_minibatches
LocalMean(shard) == DivInt(SumSeq(shard), Len(shard))

\* dist.all_reduce(t): in-place sum over the ranks
ReduceSum(tensors) ==
    LET RECURSIVE Upto(_)
        Upto(k) == IF k < 0 THEN Num(0) ELSE Add(tensors[k], Upto(k - 1))
    IN Upto(WorldSize - 1)

\* validation_loss.item() / dist.get_world_size()
GlobalLoss(reduced) == DivInt(reduced, WorldSize)

\* variant: an equal value counts as an improvement
Improved_OrEqual(target_metric, best_target_metric, higher_is_better) ==
    IF higher_is_better THEN ~Less(target_metric, best_target_metric)
    ELSE ~Less(best_target_metric, target_metric)

\* the target-metric comparison at the end of _run_validation
Improved(target_metric, best_target_metric, higher_is_better) ==
    IF higher_is_better THEN Less(best_target_metric, target_metric)
    ELSE Less(target_metric, best_target_metric)

\* target metric: the named metric of report_metrics(), else the loss
TargetMetric(named, metric, validation_loss) ==
    IF named THEN metric ELSE validation_loss

\* ------------------- the end of _run_validation followed on its own (pol)
\* numeric values of a metric and of the best so far: halves, and the
\* infinities the best starts from
PolicyValues ==
    {Norm(k, 2) : k \in (0 - 2 * MaxMetric) .. (2 * MaxMetric)} \cup {PosInf, NegInf}

Decisions ==
    {[at |-> "call", named |-> n, higher_is_better |-> h, metric |-> m,
      validation_loss |-> l, best_target_metric |-> b, target_metric |-> Unset,
      target_metric_improved |-> FALSE] :
        n \in BOOLEAN, h \in BOOLEAN, m \in PolicyValues, l \in PolicyValues,
        b \in PolicyValues}

\* the target metric is resolved and compared with the best so far;
\* _run_validation returns target_metric, target_metric_improved
Decide ==
    /\ pol.at = "call"
    /\ LET target == TargetMetric(pol.named, pol.metric, pol.validation_loss)
       IN pol' = [pol EXCEPT !.at = "returned",
                             !.target_metric = target,
                             !.target_metric_improved =
                                 Improved(target, pol.best_target_metric,
                                          pol.higher_is_better)]
    /\ UNCHANGED <<cfg, seen, meta, orch, pc, status, inGroup, epoch, best, notImproved,
                   vl, arIn, arOut, ckpt, faults, lastImp, erred, err, tp>>

InitPolicy ==
    /\ cfg = [target_metric_named |-> FALSE, target_metric_higher_is_better |-> FALSE,
              validate_on_start |-> TRUE, patience |-> 0, max_num_epochs |-> MaxNumEpochs]
    /\ Constructed
    /\ tp = NoPass
    /\ meta = NoMetadata(TRUE)
    /\ pol \in Decisions

SpecPolicy == InitPolicy /\ [][Decide]_vars

\* -------------------------------- _parallel_training_process (pure part)
\* initial best_target_metric
InitialBest(named, higher_is_better) ==
    IF higher_is_better /\ named THEN NegInf ELSE PosInf

\* for epoch in range(self._max_num_epochs): position after e iterations
LoopHead(e, max_num_epochs) == IF e < max_num_epochs THEN "train" ELSE "teardown"

\* variant: stops one pass early
ShouldStop_OneEarly(num_epochs_not_improved, patience) ==
    num_epochs_not_improved >= patience

\* variant: stops one pass late
ShouldStop_OneLate(num_epochs_not_improved, patience) ==
    num_epochs_not_improved > patience + 1

\* if num_epochs_not_improved > patience: break
ShouldStop(num_epochs_not_improved, patience) == num_epochs_not_improved > patience

\* variant: every rank saves
IsCoordinator_AnyRank(r) == r \in Ranks

\* if dist.get_rank() == 0: self._save_checkpoint()
IsCoordinator(r) == r = 0


\* ---------------------------------------------------------------- helpers
\* the better of the best observed so far and a new observation
BestSeen(sofar, target_metric, higher_is_better) ==
    IF sofar = Unset THEN target_metric
    ELSE IF higher_is_better
    THEN (IF Less(sofar, target_metric) THEN target_metric ELSE sofar)
    ELSE (IF Less(target_metric, sofar) THEN target_metric ELSE sofar)

Running(r) == status[r] = "running"

\* the memory of a worker process that is gone
Dead(f, r, v) == [f EXCEPT ![r] = v]

\* the worker ends with an exception: the process exits, its memory is gone;
\* the process group it joined is not destroyed
Raise(r, error, inPass) ==
    /\ status' = [status EXCEPT ![r] = "raised"]
    /\ err' = [err EXCEPT ![r] = error]
    /\ erred' = [erred EXCEPT ![r] = @ \/ inPass]
    /\ pc' = Dead(pc, r, "dead")
    /\ epoch' = Dead(epoch, r, 0)
    /\ best' = Dead(best, r, Unset)
    /\ notImproved' = Dead(notImproved, r, 0)
    /\ lastImp' = Dead(lastImp, r, 0)
    /\ vl' = Dead(vl, r, NoValLocals)
    /\ seen' = Dead(seen, r, Unset)

\* ------------------------------------------------- distributed_train (parent)
\* training_data.set_rank(0, 1): the view metadata is loaded from
MetadataView == <<0, 1>>

\* variant: a failed metadata initialization is ignored
AfterMetadata_IgnoresFailure(ok) == "start"

\* load_metadata_and_create_network returns, or its exception leaves
\* distributed_train
AfterMetadata(ok) == IF ok THEN "start" ELSE "raised"

\* if initialize_metadata: set_rank(0, 1), load_metadata_and_create_network
Metadata ==
    /\ orch = "entry"
    /\ IF meta.initialize_metadata
       THEN \E ok \in BOOLEAN :
                /\ meta' = [meta EXCEPT !.runs = @ + 1,
                                        !.view = MetadataView,
                                        !.launched = Cardinality({r \in Ranks : status[r] # "idle"}),
                                        !.failed = ~ok]
                /\ orch' = AfterMetadata(ok)
       ELSE /\ orch' = "start"
            /\ UNCHANGED meta
    /\ UNCHANGED <<cfg, seen, pol, pc, status, inGroup, epoch, best, notImproved, vl, arIn,
                   arOut, ckpt, faults, lastImp, erred, err, tp>>

\* mp.spawn(self._parallel_training_process, nprocs=world_size, join=True)
Spawn ==
    /\ orch = "start"
    /\ orch' = "joining"
    /\ status' = [r \in Ranks |-> "running"]
    /\ UNCHANGED <<cfg, seen, meta, pol, pc, inGroup, epoch, best, notImproved, vl, arIn, arOut,
                   ckpt, faults, lastImp, erred, err, tp>>

\* mp.spawn joining: a worker that raised makes it terminate the others and
\* raise in the parent; _restore_checkpoint is not reached
JoinRaises ==
    /\ orch = "joining"
    /\ \E r \in Ranks : status[r] = "raised"
    /\ orch' = "raised"
    /\ status' = [r \in Ranks |-> IF Running(r) THEN "terminated" ELSE status[r]]
    /\ pc' = [r \in Ranks |-> IF Running(r) THEN "dead" ELSE pc[r]]
    /\ epoch' = [r \in Ranks |-> IF Running(r) THEN 0 ELSE epoch[r]]
    /\ best' = [r \in Ranks |-> IF Running(r) THEN Unset ELSE best[r]]
    /\ notImproved' = [r \in Ranks |-> IF Running(r) THEN 0 ELSE notImproved[r]]
    /\ lastImp' = [r \in Ranks |-> IF Running(r) THEN 0 ELSE lastImp[r]]
    /\ vl' = [r \in Ranks |-> IF Running(r) THEN NoValLocals ELSE vl[r]]
    /\ seen' = [r \in Ranks |-> IF Running(r) THEN Unset ELSE seen[r]]
    /\ arIn' = [r \in Ranks |-> Unset]
    /\ arOut' = [r \in Ranks |-> Unset]
    /\ UNCHANGED <<cfg, meta, pol, inGroup, ckpt, faults, erred, err, tp>>

\* variant: the join is over once every worker has ended, however it ended
AllJoined_AnyExit(st) == \A r \in Ranks : st[r] \in {"exited", "raised"}

\* mp.spawn(join=True) returns when every worker process has exited normally
AllJoined(st) == \A r \in Ranks : st[r] = "exited"

\* every worker returned: mp.spawn returns, self._restore_checkpoint()
JoinThenRestore ==
    /\ orch = "joining"
    /\ AllJoined(status)
    /\ orch' = "restored"
    /\ UNCHANGED <<cfg, seen, meta, pol, pc, status, inGroup, epoch, best, notImproved, vl, arIn,
                   arOut, ckpt, faults, lastImp, erred, err, tp>>

\* ------------------------------------------ _parallel_training_process: INIT
\* the worker calls dist.init_process_group and waits for the other ranks
InitProcessGroup(r) ==
    /\ Running(r)
    /\ pc[r] = "init"
    /\ pc' = [pc EXCEPT ![r] = "rendezvous"]
    /\ UNCHANGED <<cfg, seen, meta, pol, orch, status, inGroup, epoch, best, notImproved, vl, arIn,
                   arOut, ckpt, faults, lastImp, erred, err, tp>>

\* init_process_group returns once every rank has called it; the worker then
\* builds module, data views, optimizer and the initial best_target_metric
Setup(r) ==
    /\ Running(r)
    /\ pc[r] = "rendezvous"
    /\ \A q \in Ranks : pc[q] # "init"
    /\ inGroup' = [inGroup EXCEPT ![r] = TRUE]
    /\ best' = [best EXCEPT ![r] = InitialBest(cfg.target_metric_named,
                                               cfg.target_metric_higher_is_better)]
    /\ notImproved' = [notImproved EXCEPT ![r] = 0]
    /\ pc' = [pc EXCEPT ![r] = IF cfg.validate_on_start THEN "v0_val" ELSE LoopHead(0, cfg.max_num_epochs)]
    /\ UNCHANGED <<cfg, seen, meta, pol, orch, status, epoch, vl, arIn, arOut, ckpt, faults,
                   lastImp, erred, err, tp>>

\* ------------------------------------------------------------ _run_training
\* how _run_training can end on some shard: the exception raised, "" if none
TrainErrors ==
    {RunTraining(shard, failAt, tc).error :
        shard \in TrainShards, failAt \in 0 .. MaxMinibatches, tc \in TrainConfigs}

\* one training pass over this rank's shard; the caller logs an exception and
\* raises it again, which ends the worker
TrainPass(r) ==
    /\ Running(r)
    /\ pc[r] = "train"
    /\ \E error \in TrainErrors :
         IF error # ""
         THEN Raise(r, error, TRUE)
         ELSE /\ pc' = [pc EXCEPT ![r] = "val"]
              /\ UNCHANGED <<status, err, erred, vl, epoch, best, notImproved, lastImp,
                             seen>>
    /\ UNCHANGED <<cfg, meta, pol, orch, inGroup, arIn, arOut, ckpt, faults, tp>>

\* ---------------------------------------------------------- _run_validation
OnStartPcs == {"v0_val", "v0_allreduce", "v0_post"}
AllReducePcs == {"v0_allreduce", "allreduce"}
PostPcs == {"v0_post", "val_post"}
AllReducePc(p) == IF p = "v0_val" THEN "v0_allreduce" ELSE "allreduce"
PostPc(p) == IF p = "v0_allreduce" THEN "v0_post" ELSE "val_post"

\* exceptions a forward call can raise
ForwardErrors == {"RuntimeError", "Exception"}

\* The body of the try block up to the all_reduce call, and what the
\* `except RuntimeError` clause makes of an exception: a RuntimeError is logged
\* and NOT raised again, so execution continues after the try block, where
\* the first log call reads elapsed_time, unbound if the loop did not finish.
\* failAt > 0 is the minibatch whose forward call raises `kind`.
ValidationLocal(shard, failAt, kind) ==
    IF failAt > 0
    THEN IF kind = "RuntimeError"
         THEN [error |-> "UnboundLocalError", v |-> NoValLocals]
         ELSE [error |-> kind, v |-> NoValLocals]
    ELSE IF Len(shard) = 0
    THEN [error |-> "AssertionError", v |-> NoValLocals]
    ELSE [error |-> "",
          v |-> [live |-> TRUE, local_mean |-> LocalMean(shard),
                 validation_loss |-> LocalMean(shard), elapsed_time |-> TRUE,
                 raised |-> FALSE]]

\* the local validation loop, then the call of dist.all_reduce, which blocks
\* until every rank has handed in its tensor
ValLocal(r) ==
    /\ Running(r)
    /\ pc[r] \in {"v0_val", "val"}
    /\ \E shard \in ValShards : \E failAt \in 0 .. Len(shard) : \E kind \in ForwardErrors :
         LET res == ValidationLocal(shard, failAt, kind)
             handed == [arIn EXCEPT ![r] = res.v.local_mean]
         IN IF res.error # ""
            THEN /\ Raise(r, res.error, TRUE)
                 /\ UNCHANGED <<arIn, arOut>>
            ELSE /\ vl' = [vl EXCEPT ![r] = res.v]
                 /\ pc' = [pc EXCEPT ![r] = AllReducePc(pc[r])]
                 /\ IF \A q \in Ranks : handed[q] # Unset
                    THEN /\ arOut' = [q \in Ranks |-> ReduceSum(handed)]
                         /\ arIn' = [q \in Ranks |-> Unset]
                    ELSE /\ arIn' = handed
                         /\ UNCHANGED arOut
                 /\ UNCHANGED <<status, err, erred, epoch, best, notImproved, lastImp,
                                seen>>
    /\ UNCHANGED <<cfg, meta, pol, orch, inGroup, ckpt, faults, tp>>

\* all_reduce returns the sum; the loss is then divided by the world size
AllReduceReturn(r) ==
    /\ Running(r)
    /\ pc[r] \in AllReducePcs
    /\ arOut[r] # Unset
    /\ vl' = [vl EXCEPT ![r].validation_loss = GlobalLoss(arOut[r])]
    /\ arOut' = [arOut EXCEPT ![r] = Unset]
    /\ pc' = [pc EXCEPT ![r] = PostPc(pc[r])]
    /\ UNCHANGED <<cfg, seen, meta, pol, orch, status, inGroup, epoch, best, notImproved, arIn,
                   ckpt, faults, lastImp, erred, err, tp>>

\* all_reduce raises a RuntimeError (communication failure).  The except
\* clause logs it and carries on: the division by the world size is skipped
\* and validation_loss is the tensor as all_reduce left it: the undivided sum
\* if the reduction had already happened in place, else this rank's own mean,
\* and then the other ranks are left waiting for this rank's tensor.
AllReduceRaises(r) ==
    /\ Running(r)
    /\ pc[r] \in AllReducePcs
    /\ faults < MaxFaults
    /\ faults' = faults + 1
    /\ vl' = [vl EXCEPT ![r].validation_loss =
                            IF arOut[r] # Unset THEN arOut[r] ELSE vl[r].local_mean,
                        ![r].raised = TRUE]
    /\ erred' = [erred EXCEPT ![r] = TRUE]
    /\ arOut' = [arOut EXCEPT ![r] = Unset]
    /\ arIn' = [arIn EXCEPT ![r] = Unset]
    /\ pc' = [pc EXCEPT ![r] = PostPc(pc[r])]
    /\ UNCHANGED <<cfg, seen, meta, pol, orch, status, inGroup, epoch, best, notImproved, ckpt,
                   lastImp, err, tp>>

\* ---------------------- _parallel_training_process: after _run_validation
\* self._save_checkpoint(), with what the decision that led to it looked like
Checkpoint(r, e, target, improved, pass_raised) ==
    [saved |-> TRUE, by |-> r, epoch |-> e, metric |-> target,
     improved |-> improved, in_loop |-> TRUE, pass_raised |-> pass_raised]

\* validate_on_start: the rest of _run_validation (metrics, hooks, target
\* metric, comparison), then `assert improved` and the new baseline
ValidateOnStartReturn(r) ==
    /\ Running(r)
    /\ pc[r] = "v0_post"
    /\ \E metric \in MetricValues :
         LET target == TargetMetric(cfg.target_metric_named, metric, vl[r].validation_loss)
             improved == Improved(target, best[r], cfg.target_metric_higher_is_better)
         IN IF improved
            THEN /\ best' = [best EXCEPT ![r] = target]
                 /\ pc' = [pc EXCEPT ![r] = LoopHead(0, cfg.max_num_epochs)]
                 /\ vl' = [vl EXCEPT ![r] = NoValLocals]
                 /\ seen' = [seen EXCEPT ![r] = BestSeen(@, target,
                                                         cfg.target_metric_higher_is_better)]
                 /\ UNCHANGED <<status, err, erred, epoch, notImproved, lastImp>>
            ELSE Raise(r, "AssertionError", FALSE)
    /\ UNCHANGED <<cfg, meta, pol, orch, inGroup, arIn, arOut, ckpt, faults, tp>>

\* epoch loop: the rest of _run_validation, then the improved / not improved
\* branch with the checkpoint and the early-stopping test
EpochValidationReturn(r) ==
    /\ Running(r)
    /\ pc[r] = "val_post"
    /\ \E metric \in MetricValues :
         LET target == TargetMetric(cfg.target_metric_named, metric, vl[r].validation_loss)
             improved == Improved(target, best[r], cfg.target_metric_higher_is_better)
             e == epoch[r] + 1
             n == notImproved[r] + 1
         IN /\ epoch' = [epoch EXCEPT ![r] = e]
            /\ seen' = [seen EXCEPT ![r] = BestSeen(@, target,
                                                    cfg.target_metric_higher_is_better)]
            /\ IF improved
               THEN /\ notImproved' = [notImproved EXCEPT ![r] = 0]
                    /\ ckpt' = IF IsCoordinator(r)
                               THEN Checkpoint(r, e, target, improved, vl[r].raised)
                               ELSE ckpt
                    /\ best' = [best EXCEPT ![r] = target]
                    /\ lastImp' = [lastImp EXCEPT ![r] = e]
                    /\ pc' = [pc EXCEPT ![r] = LoopHead(e, cfg.max_num_epochs)]
               ELSE /\ notImproved' = [notImproved EXCEPT ![r] = n]
                    /\ pc' = [pc EXCEPT ![r] = IF ShouldStop(n, cfg.patience)
                                               THEN "teardown" ELSE LoopHead(e, cfg.max_num_epochs)]
                    /\ UNCHANGED <<ckpt, best, lastImp>>
    /\ vl' = [vl EXCEPT ![r] = NoValLocals]
    /\ UNCHANGED <<cfg, meta, pol, orch, status, inGroup, arIn, arOut, faults, erred, err,
                   tp>>

\* dist.destroy_process_group(), the last statement of the worker
Teardown(r) ==
    /\ Running(r)
    /\ pc[r] = "teardown"
    /\ inGroup' = [inGroup EXCEPT ![r] = FALSE]
    /\ pc' = [pc EXCEPT ![r] = "end"]
    /\ status' = [status EXCEPT ![r] = "exited"]
    /\ UNCHANGED <<cfg, seen, meta, pol, orch, epoch, best, notImproved, vl, arIn, arOut, ckpt,
                   faults, lastImp, erred, err, tp>>

\* ------------------------------------------------------------ specification
\* every step but a failing collective
NextReliable ==
    \/ Metadata
    \/ Spawn
    \/ JoinRaises
    \/ JoinThenRestore
    \/ \E r \in Ranks : InitProcessGroup(r)
    \/ \E r \in Ranks : Setup(r)
    \/ \E r \in Ranks : TrainPass(r)
    \/ \E r \in Ranks : ValLocal(r)
    \/ \E r \in Ranks : AllReduceReturn(r)
    \/ \E r \in Ranks : ValidateOnStartReturn(r)
    \/ \E r \in Ranks : EpochValidationReturn(r)
    \/ \E r \in Ranks : Teardown(r)

Next ==
    \/ NextReliable
    \/ \E r \in Ranks : AllReduceRaises(r)

Spec == Init /\ [][Next]_vars

\* the same program when no collective ever fails
SpecReliable == Init /\ [][NextReliable]_vars

\* no collective fails and the processes keep running: while some process
\* can take a step, a step is taken
SpecProgress == Init /\ [][NextReliable]_vars /\ WF_vars(NextReliable)


\* the scenario of patience 2 over seven epochs, the loss as the target metric
InitScenario ==
    /\ cfg \in {c \in [target_metric_named : {FALSE},
                       target_metric_higher_is_better : {FALSE},
                       validate_on_start : BOOLEAN,
                       patience : {2},
                       max_num_epochs : {7}] : TRUE}
    /\ Constructed
    /\ tp = NoPass
    /\ meta = NoMetadata(TRUE)
    /\ pol = NoDecision

SpecScenario == InitScenario /\ [][Next]_vars

\* runs with and without initialize_metadata, the loss as the target metric
InitMetadataRun ==
    /\ cfg \in {c \in Configs : /\ ~c.target_metric_named
                                 /\ ~c.target_metric_higher_is_better
                                 /\ c.patience = 0}
    /\ Constructed
    /\ tp = NoPass
    /\ meta \in {NoMetadata(b) : b \in BOOLEAN}
    /\ pol = NoDecision

SpecMetadata == InitMetadataRun /\ [][Next]_vars

\* the same runs, with the parent's join loop polling its workers: a worker
\* that has raised is noticed
SpecJoin == InitMetadataRun /\ [][Next]_vars /\ WF_vars(JoinRaises)

\* ------------------------------------------------------------ observations
Alive(r) == status[r] \in {"running", "exited"}

\* the worker is past its epoch loop
LeftLoop(r) == pc[r] \in {"teardown", "end"}

\* validation passes of the epoch loop since the last improving one
Consec(r) == epoch[r] - lastImp[r]

\* training passes the worker has run to the end
TrainPassesRun(r) ==
    epoch[r] + (IF pc[r] \in {"val", "allreduce", "val_post"} THEN 1 ELSE 0)


\* ------------------------------------------------------------------ claims

\* C1: all ranks take the same improved / not improved and early-stop
\* decisions in every epoch, so no rank leaves the epoch loop while another
\* rank still waits in, or will still enter, a validation all-reduce.
C1_RanksInLockstep ==
    \A r \in Ranks : \A q \in Ranks :
        /\ (Alive(r) /\ Alive(q) /\ epoch[r] = epoch[q]) =>
               /\ lastImp[r] = lastImp[q]
               /\ LeftLoop(r) <=> LeftLoop(q)
        /\ (LeftLoop(r) /\ Running(q)) =>
               /\ pc[q] \notin {"train", "val", "v0_val"}
               /\ pc[q] \in AllReducePcs => arOut[q] # Unset

\* C2: the epoch loop stops early exactly when patience + 1 consecutive
\* validation passes have not improved since the last improving one: the
\* count never exceeds patience + 1, a worker whose count reached
\* patience + 1 has left the loop, and a worker that left the loop before
\* the last epoch did so with a count of exactly patience + 1.
C2_StopsAtPatiencePlusOne ==
    \A r \in Ranks :
        Alive(r) =>
            /\ Consec(r) <= cfg.patience + 1
            /\ Consec(r) = cfg.patience + 1 => LeftLoop(r)
            /\ (LeftLoop(r) /\ epoch[r] < cfg.max_num_epochs) =>
                   Consec(r) = cfg.patience + 1

\* C2 witness: a worker stopped early, after an improving pass and then
\* patience + 1 passes without improvement
C2_Witness ==
    \E r \in Ranks :
        /\ LeftLoop(r)
        /\ epoch[r] < cfg.max_num_epochs
        /\ lastImp[r] >= 1
        /\ cfg.patience >= 1

\* C3 as stated: with patience 2 and the best metric at epoch 3, after the
\* passes of epochs 4 and 5 did not improve the training pass of epoch 6 is
\* never run.
C3_StopsAfterEpoch5 ==
    \A r \in Ranks :
        (Alive(r) /\ cfg.patience = 2 /\ lastImp[r] = 3) => TrainPassesRun(r) <= 5

\* C3 amended: with patience 2 and the best metric at epoch 3, the loop does
\* not stop after the non-improving epochs 4 and 5; it stops after epoch 6
\* when that one does not improve either, and epoch 7 is never run.
C3_StopsAfterEpoch6 ==
    \A r \in Ranks :
        (Alive(r) /\ cfg.patience = 2 /\ lastImp[r] = 3) =>
            /\ epoch[r] = 5 => ~LeftLoop(r)
            /\ epoch[r] >= 6 => (LeftLoop(r) /\ epoch[r] = 6)
            /\ TrainPassesRun(r) <= 6

\* C3 witness: best at epoch 3, epochs 4, 5 and 6 did not improve, loop left
C3_Witness ==
    \E r \in Ranks :
        /\ cfg.patience = 2
        /\ cfg.max_num_epochs >= 7
        /\ lastImp[r] = 3
        /\ epoch[r] = 6
        /\ notImproved[r] = 3
        /\ LeftLoop(r)

\* C4: the checkpoint store is written only by rank 0 and only on an
\* improving validation pass of the epoch loop: the stored checkpoint is
\* rank 0's, taken in the loop on an improved result, at the epoch of rank
\* 0's last improving pass.
C4_OnlyRankZeroSavesOnImprovement ==
    ckpt.saved =>
        /\ ckpt.by = 0
        /\ ckpt.in_loop
        /\ ckpt.improved
        /\ Alive(0) => ckpt.epoch = lastImp[0]

\* C4 witness: another rank saw an improvement too, and the store holds
\* rank 0's checkpoint
C4_Witness ==
    /\ ckpt.saved
    /\ ckpt.by = 0
    /\ \E r \in Ranks : r # 0 /\ lastImp[r] >= 1

\* C5: a worker that joined the process group has destroyed it when its
\* program has ended, whether it returned or raised.
C5_GroupDestroyedOnEveryExit ==
    \A r \in Ranks : status[r] \in {"raised", "exited"} => ~inGroup[r]

\* C6: an error raised inside a training or validation pass ends the
\* worker: a worker that is still running after such an error has not got
\* past the pass in which it was raised.
C6_PassErrorEndsWorker ==
    \A r \in Ranks :
        (erred[r] /\ Running(r)) => (pc[r] \in PostPcs /\ vl[r].raised)

\* C7: no checkpoint is written in an epoch whose validation pass raised an
\* error on rank 0.
C7_NoCheckpointForFailedEpoch ==
    ckpt.saved => ~ckpt.pass_raised

\* C8: when every rank is back from the all-reduce of the same validation
\* pass, each holds (sum of the ranks' local mean losses) / world size.
C8_SameGlobalLoss ==
    (\A r \in Ranks : Running(r) /\ pc[r] \in PostPcs /\ pc[r] = pc[0] /\ epoch[r] = epoch[0])
        => \A r \in Ranks :
               vl[r].validation_loss =
                   GlobalLoss(ReduceSum([q \in Ranks |-> vl[q].local_mean]))

\* C9: a minibatch whose loss is not finite makes the training pass fail
\* before back-propagation and the optimizer step, so no optimizer step is
\* applied from a non-finite loss.
C9_NonFiniteLossFails ==
    /\ (tp.last # Unset /\ ~IsFinite(tp.last)) => tp.at = "raised"
    /\ tp.t.nonFiniteSteps = 0

\* C10: a training pass that returns processed at least one minibatch; a
\* pass over a shard without minibatches fails on the assertion, with no
\* optimizer step applied and no end-of-epoch hook invoked.
C10_EmptyShardFails ==
    /\ tp.at = "returned" => tp.t.num_minibatches > 0
    /\ (tp.at \in {"returned", "raised"} /\ Len(tp.shard) = 0) =>
           /\ tp.at = "raised"
           /\ tp.error = "AssertionError"
           /\ tp.t.optSteps = 0
           /\ tp.t.hooks = 0

\* C10 witness: the pass over an empty shard has failed
C10_Witness ==
    /\ tp.at = "raised"
    /\ Len(tp.shard) = 0
    /\ tp.error = "AssertionError"

\* C11: with validate_on_start, whatever the configuration, the first
\* validation pass is reported as improved against the initial best metric:
\* a worker about to finish the start pass gets an improved flag for every
\* value the target metric can take, and a worker that is past the start
\* pass holds a measured (finite) baseline.
C11_FirstPassImproves ==
    \A r \in Ranks :
        /\ (Running(r) /\ pc[r] = "v0_post") =>
               \A metric \in MetricValues :
                   Improved(TargetMetric(cfg.target_metric_named, metric,
                                         vl[r].validation_loss),
                            best[r], cfg.target_metric_higher_is_better)
        /\ (Running(r) /\ cfg.validate_on_start /\ pc[r] \in {"train", "val"}) =>
               IsFinite(best[r])

\* C12: with initialize_metadata set, metadata initialization runs exactly
\* once, from the single-shard view (rank 0 of 1), and is complete before
\* any worker is launched: it never runs twice, it ran while no worker was
\* running, workers exist only after it has run once and succeeded, and
\* after a failed initialization no worker is ever spawned.
C12_MetadataOnceBeforeSpawn ==
    /\ meta.runs <= 1
    /\ meta.runs = 1 => (meta.view = <<0, 1>> /\ meta.launched = 0)
    /\ meta.initialize_metadata =>
           /\ orch # "entry" => meta.runs = 1
           /\ (\E r \in Ranks : status[r] # "idle") => (meta.runs = 1 /\ ~meta.failed)
           /\ meta.failed => (orch = "raised" /\ \A r \in Ranks : status[r] = "idle")
    /\ ~meta.initialize_metadata => meta.runs = 0

\* C12 witness: metadata was initialized once and the workers have run and
\* finished afterwards
C12_Witness ==
    /\ meta.initialize_metadata
    /\ meta.runs = 1
    /\ orch = "restored"
    /\ \A r \in Ranks : status[r] = "exited" /\ epoch[r] >= 1

\* C13, state part: the checkpoint is restored only when every worker has
\* exited without error; while a worker has raised the parent is still
\* joining or has raised itself, and once it has raised no worker is left
\* running.
C13_RestoreOnlyAfterCleanExit ==
    /\ orch = "restored" => \A r \in Ranks : status[r] = "exited"
    /\ (\E r \in Ranks : status[r] = "raised") => orch \in {"joining", "raised"}
    /\ orch = "raised" =>
           /\ \A r \in Ranks : ~Running(r)
           /\ meta.failed \/ \E r \in Ranks : status[r] = "raised"

\* C13: distributed_train restores the checkpoint only after every worker
\* exited, all without error; when a worker raises, distributed_train ends by
\* raising and never restores or returns normally.
C13_WorkerFailureSurfaces ==
    /\ []C13_RestoreOnlyAfterCleanExit
    /\ (\E r \in Ranks : status[r] = "raised") ~> (orch = "raised")

\* C13 witness: a worker raised, the parent terminated the other one and
\* raised
C13_Witness ==
    /\ orch = "raised"
    /\ \E r \in Ranks : status[r] = "raised"
    /\ \E r \in Ranks : status[r] = "terminated"

\* C14: when distributed_train restores the checkpoint, rank 0 has saved one
\* during the run, and the stored checkpoint is that of the epoch with the
\* best target metric rank 0 has observed, the measurement of the start pass
\* included.
C14_RestoredIsBestOfRun ==
    orch = "restored" =>
        /\ ckpt.saved
        /\ ckpt.metric = best[0]
        /\ ckpt.epoch = lastImp[0]

\* a value of PolicyValues on the integer scale of its halves, the
\* infinities beyond every finite value
Halves(x) ==
    IF x = PosInf THEN 2 * MaxMetric + 1
    ELSE IF x = NegInf THEN 0 - (2 * MaxMetric + 1)
    ELSE x[1] * (2 \div x[2])

\* C15: the improvement flag that _run_validation returns is (new > best)
\* when higher-is-better is configured and (new < best) otherwise, new being
\* the named metric if one is named and the validation loss if not; equal
\* values never count as an improvement.
C15_ImprovedIsStrictComparison ==
    pol.at = "returned" =>
        LET new == IF pol.named THEN pol.metric ELSE pol.validation_loss
        IN /\ pol.target_metric = new
           /\ pol.target_metric_improved <=>
                  IF pol.higher_is_better
                  THEN Halves(new) > Halves(pol.best_target_metric)
                  ELSE Halves(new) < Halves(pol.best_target_metric)
           /\ new = pol.best_target_metric => ~pol.target_metric_improved

\* C15 witness: a decision on a value equal to the best so far, with higher
\* is better, has returned
C15_Witness ==
    /\ pol.at = "returned"
    /\ pol.higher_is_better
    /\ pol.target_metric = pol.best_target_metric
    /\ IsFinite(pol.target_metric)
    /\ pol.target_metric[2] = 2

\* the place of an event in the order the claim gives for one minibatch;
\* scaler_step is the call that applies the optimizer step, optimizer_step
\* the step it makes unless the scaler skips it
Place(name) ==
    CASE name = "zero_grad" -> 1
      [] name \in {"forward", "forward_raises"} -> 2
      [] name = "backward" -> 3
      [] name = "unscale" -> 4
      [] name = "clip" -> 5
      [] name = "scaler_step" -> 6
      [] name = "optimizer_step" -> 7
      [] name = "scaler_update" -> 8
      [] name = "scheduler_step" -> 9

\* the names of the events of minibatch i so far
EventsOf(i) == {tp.t.events[k][1] : k \in {j \in 1 .. Len(tp.t.events) : tp.t.events[j][2] = i}}

\* C16: in a training pass the events of one minibatch occur in the order
\* zero gradients, loss, backward, (unscale, clip), optimizer step, scaler
\* update, (scheduler step), each at most once; unscale and clip occur exactly
\* when a clip threshold is configured and the scheduler step exactly when a
\* schedule is; the events of minibatch k + 1 all come after those of
\* minibatch k.
C16_MinibatchEventOrder ==
    LET ev == tp.t.events
    IN /\ \A j \in 1 .. Len(ev) : \A k \in 1 .. Len(ev) :
              j < k =>
                  /\ ev[j][2] <= ev[k][2]
                  /\ ev[j][2] = ev[k][2] => Place(ev[j][1]) < Place(ev[k][1])
       /\ \A i \in 1 .. tp.t.num_minibatches :
              /\ {"zero_grad", "forward", "backward", "scaler_step", "scaler_update"}
                     \subseteq EventsOf(i)
              /\ "unscale" \in EventsOf(i) <=> tp.tc.clip_gradient_norm
              /\ "clip" \in EventsOf(i) <=> tp.tc.clip_gradient_norm
              /\ "scheduler_step" \in EventsOf(i) <=> tp.tc.scheduler
       /\ \A k \in 1 .. Len(ev) :
              /\ ev[k][2] \in 1 .. (tp.t.num_minibatches + 1)
              /\ ev[k][2] = tp.t.num_minibatches + 1 =>
                     (tp.at = "raised" /\ Place(ev[k][1]) <= 2)

\* C16 witness: a pass over two minibatches has returned, with clipping and
\* a schedule configured
C16_Witness ==
    /\ tp.at = "returned"
    /\ tp.t.num_minibatches = 2
    /\ tp.tc.clip_gradient_norm
    /\ tp.tc.scheduler

\* the steps of a worker from the head of the epoch loop on
LoopSteps ==
    {<<"train", "val">>, <<"val", "allreduce">>, <<"allreduce", "val_post">>,
     <<"val_post", "train">>, <<"val_post", "teardown">>, <<"teardown", "end">>}

\* C17, step part: a worker in the epoch loop goes from a training pass to a
\* validation pass to the decision, which opens the next iteration or leaves
\* the loop for the teardown; an iteration is counted exactly at the
\* decision, and never more than max_num_epochs of them.
C17_LoopShape ==
    \A r \in Ranks :
        /\ epoch'[r] <= cfg.max_num_epochs
        /\ (pc[r] \in {"train", "val", "allreduce", "val_post", "teardown", "end"}
                /\ pc'[r] # pc[r] /\ pc'[r] # "dead") =>
               /\ <<pc[r], pc'[r]>> \in LoopSteps
               /\ epoch'[r] = epoch[r] + (IF pc[r] = "val_post" THEN 1 ELSE 0)

\* C17: the epoch loop of a worker always terminates: at most max_num_epochs
\* iterations of training pass, validation pass and decision, after which
\* the worker reaches the teardown without a further pass; so every running
\* worker eventually ends.
C17_EpochLoopTerminates ==
    /\ [][C17_LoopShape]_vars
    /\ \A r \in Ranks : Running(r) ~> ~Running(r)

\* the worker is in the epoch loop or past it
InOrPastLoop(r) == pc[r] \in {"train", "val", "allreduce", "val_post", "teardown", "end"}

\* C18: when no target metric is named, the ranks agree after every
\* validation pass: two ranks that are back from the all-reduce of the same
\* pass hold the same target metric, two ranks that have decided the same
\* number of epochs hold the same best metric, the same counter and the same
\* last improving epoch and have both left the loop or both not, and two ranks
\* that have left the loop left it in the same epoch.
C18_RanksAgreeOnLoss ==
    ~cfg.target_metric_named =>
        \A r \in Ranks : \A q \in Ranks :
            (Alive(r) /\ Alive(q)) =>
                /\ (pc[r] \in PostPcs /\ pc[q] = pc[r] /\ epoch[r] = epoch[q]) =>
                       vl[r].validation_loss = vl[q].validation_loss
                /\ (InOrPastLoop(r) /\ InOrPastLoop(q) /\ epoch[r] = epoch[q]) =>
                       /\ best[r] = best[q]
                       /\ notImproved[r] = notImproved[q]
                       /\ lastImp[r] = lastImp[q]
                       /\ LeftLoop(r) <=> LeftLoop(q)
                /\ (LeftLoop(r) /\ LeftLoop(q)) => epoch[r] = epoch[q]

\* C19: after every validation pass of a worker, best_target_metric is the
\* best (maximum if higher is better, else minimum) of the target metrics it
\* has observed so far, and num_epochs_not_improved is the number of
\* validation passes of the epoch loop since the last improving one (0 right
\* after an improvement) and is at most patience + 1.
C19_BestIsBestObserved ==
    \A r \in Ranks :
        (Alive(r) /\ seen[r] # Unset) =>
            /\ best[r] = seen[r]
            /\ notImproved[r] = Consec(r)
            /\ notImproved[r] <= cfg.patience + 1

====
